---------------------------- MODULE Spec2Model ----------------------------
(***************************************************************************)
(* A model of the vector_tiles tile generator.                             *)
(*                                                                         *)
(*   - src/src/main.rs: the recursive fork-join tile generator             *)
(*     (write_tile_recursive on rayon's worker pool), the mpsc channel and *)
(*     the consumer loop of main, get_tile, tiles_for_z, and the geometry  *)
(*     of a tile node (create_tile, the simplification);                   *)
(*   - src/src/clip.rs: clip_line and clip_polygon;                        *)
(*   - src/src/shapefile.rs: parse_shp and the ring assembly.              *)
(***************************************************************************)
EXTENDS Integers, Sequences, FiniteSets, Bags, TLC

(***************************************************************************)
(* Bounds of the model.                                                    *)
(***************************************************************************)
\* the largest max_level a configured source may have
MaxLevel == 2
\* the largest number of configured sources (conf.tiles)
MaxSources == 2
\* the largest size of rayon's worker pool
MaxWorkers == 2
\* the largest product of the pool's size and the number of tiles of a run
MaxLoad == 21
\* the significant bits of the model's floating-point format
Precision == 10
\* the fractional bits of the model's floating-point format
FracBits == 14
\* the largest number of vertices of a ring handed to clip_line
MaxRingLen == 4
\* the largest number of record slots of a buffer handed to parse_shp
MaxRecords == 2
\* the largest number of parts of a shape record
MaxParts == 3
\* the deepest level of the tiles handed to get_tile
MaxZoom == 2
\* the largest max_level handed to tiles_for_z
MaxExp == 17
\* the largest number of sources whose tiles main adds up
MaxTotal == 4
\* the level of the deep tiles handed to write_tile_recursive
MaxDeep == 7
\* the max_level of the source whose root tile is handed to
\* write_tile_recursive with its geometry: the fallback of clip_polygon on a
\* polygon as wide as the world at a tile of level 2 multiplies beyond
\* TLC's integers
MaxNode == 1

VARIABLES
    conf,       \* conf.tiles: the max_level of each configured source
    nworkers,   \* the size of rayon's global worker pool
    mainpc,     \* where the main thread is: "spawn", "recv", "done"
    nextsrc,    \* the index of the source main sets up next
    senders,    \* the number of live mpsc::Sender handles
    injector,   \* the jobs main has spawned on the pool, not yet taken (FIFO)
    deque,      \* per worker: the jobs it has spawned, not yet taken
    stack,      \* per worker: the frames of write_tile_recursive it runs
    done,       \* the tile nodes whose write_tile_recursive has returned
    chan,       \* the channel: the requests sent and not yet received (FIFO)
    sent,       \* history: the bag of every tile ever sent to the channel
    received,   \* history: the bag of every tile the consumer has received
    call,       \* a pure function being applied: its name and its arguments
    ret         \* its result, once it has been applied

vars == <<conf, nworkers, mainpc, nextsrc, senders, injector, deque, stack,
          done, chan, sent, received, call, ret>>

(***************************************************************************)
(* Tile nodes.  A node is <<s, z, x, y>>: the source s whose options the   *)
(* WriteRequest carries, and the tile (z, x, y).                           *)
(***************************************************************************)
Pow2(n) == 2 ^ n

Root(s) == <<s, 0, 0, 0>>

\* a slip in the second child's x: (z + 1, 2 * x, 2 * y) spawned twice
ChildSameX(n, k) ==
    <<n[1], n[2] + 1, 2 * n[3], 2 * n[4] + (IF k \in {3, 4} THEN 1 ELSE 0)>>

\* the k-th child computation, in the order the scope spawns them
Child(n, k) ==
    <<n[1], n[2] + 1,
      2 * n[3] + (IF k \in {2, 4} THEN 1 ELSE 0),
      2 * n[4] + (IF k \in {3, 4} THEN 1 ELSE 0)>>

Children(n) == {Child(n, k) : k \in 1..4}

\* the tile coordinates of source s with recursion bound L
Tiles(s, L) ==
    {n \in {s} \X (0..L) \X (0..(Pow2(L) - 1)) \X (0..(Pow2(L) - 1)) :
        n[3] < Pow2(n[2]) /\ n[4] < Pow2(n[2])}

\* z < tile_options.max_level
Recurses(n) == n[2] < conf[n[1]]

\* fire-and-forget: the parent does not wait for its children
LatchIgnored(n) == TRUE

\* the scope's latch: every job spawned in the scope of n has completed
LatchSet(n) == Children(n) \subseteq done

Top(w) == stack[w][Len(stack[w])]

Pop(w) == SubSeq(stack[w], 1, Len(stack[w]) - 1)

SetTop(w, f) == [stack EXCEPT ![w] = Append(Pop(w), f)]

\* a worker takes a job when it is idle, or while it waits in wait_until for
\* the latch of the scope it is in
CanStart(w) ==
    \/ stack[w] = <<>>
    \/ /\ stack[w] # <<>>
       /\ Top(w).pc = "wait"
       /\ ~LatchSet(Top(w).tile)

(***************************************************************************)
(* Floating point.  clip.rs is generic over T: Float and main.rs uses f64. *)
(* The model's T is a binary floating-point format with Precision          *)
(* significant bits, rounding every operation to nearest, ties to even, as *)
(* IEEE 754 does (f32: 24 bits, f64: 53 bits).  A value is held as the     *)
(* integer n that stands for n / Grid; Grid is the spacing of the          *)
(* format's smallest (subnormal) values.                                   *)
(***************************************************************************)
Grid == 2 ^ FracBits

Abs(n) == IF n < 0 THEN -n ELSE n

\* num / den rounded to an integer, ties to even (num >= 0, den > 0)
RoundHalfEven(num, den) ==
    LET q == num \div den
        r == num % den
    IN  IF 2 * r > den \/ (2 * r = den /\ q % 2 = 1) THEN q + 1 ELSE q

\* the exponent of the unit in the last place of a value of magnitude q
RECURSIVE UlpShift(_, _)
UlpShift(q, s) == IF q < 2 ^ (Precision + s) THEN s ELSE UlpShift(q, s + 1)

\* num / den (den > 0), rounded to the format
Rnd(num, den) ==
    LET a == Abs(num)
        s == UlpShift(a \div den, 0)
        m == RoundHalfEven(a, den * 2 ^ s) * 2 ^ s
    IN  IF num < 0 THEN -m ELSE m

\* the largest i <= max with 2^i dividing n (n > 0)
RECURSIVE Twos(_, _)
Twos(n, max) ==
    IF max = 0 \/ n % 2 = 1 THEN 0 ELSE 1 + Twos(n \div 2, max - 1)

\* the literal or integer v as a float
FromInt(v) == Rnd(v * Grid, 1)

FAdd(a, b) == Rnd(a + b, 1)

FSub(a, b) == Rnd(a - b, 1)

FMul(a, b) ==
    IF a = 0 \/ b = 0 THEN 0
    ELSE LET i == Twos(Abs(a), FracBits)
             j == Twos(Abs(b), FracBits - i)
         IN  Rnd((a \div 2 ^ i) * (b \div 2 ^ j), 2 ^ (FracBits - i - j))

FDiv(a, b) ==
    LET num == IF b < 0 THEN -a ELSE a
        den == Abs(b)
        j == Twos(den, FracBits)
    IN  Rnd(num * 2 ^ (FracBits - j), den \div 2 ^ j)

\* 2.0f64.powi(zoom)
Powi2(zoom) == IF zoom >= 0 THEN Rnd(Grid * 2 ^ zoom, 1) ELSE Rnd(Grid, 2 ^ (-zoom))

(***************************************************************************)
(* clip.rs.  A coordinate is <<x, y>>, a ring (geo::LineString) a sequence *)
(* of coordinates, a polygon [exterior, interiors], a rect [min, max].     *)
(***************************************************************************)
\* GetCoord::coord::<A>
coord(p, A) == IF A = "X" THEN p[1] ELSE p[2]

interpolate(a, b, t) ==
    <<FAdd(a[1], FMul(t, FSub(b[1], a[1]))), FAdd(a[2], FMul(t, FSub(b[2], a[2])))>>

intersect(a, b, k, A) ==
    LET t == FDiv(FSub(k, coord(a, A)), FSub(coord(b, A), coord(a, A)))
    IN  interpolate(a, b, t)

\* coord < k2 && coord > k1
InOpen(c, k1, k2) == c < k2 /\ c > k1

\* a trivial reject that counts the bounds themselves as inside
TrivialRejectClosed(ls, k1, k2, A) ==
    ~\E i \in 1..Len(ls) : coord(ls[i], A) <= k2 /\ coord(ls[i], A) >= k1

TrivialReject(ls, k1, k2, A) ==
    ~\E i \in 1..Len(ls) : InOpen(coord(ls[i], A), k1, k2)

TrivialAccept(ls, k1, k2, A) ==
    \A i \in 1..Len(ls) : InOpen(coord(ls[i], A), k1, k2)

\* the points one iteration of the loop over windows(2) pushes
EdgePoints(p, q, k1, k2, A) ==
    LET a == coord(p, A)
        b == coord(q, A)
        enter == IF a < k1
                 THEN IF b > k1 THEN <<intersect(p, q, k1, A)>> ELSE <<>>
                 ELSE IF a > k2
                      THEN IF b < k2 THEN <<intersect(p, q, k2, A)>> ELSE <<>>
                      ELSE <<p>>
        exitlow == IF b < k1 /\ a >= k1 THEN <<intersect(p, q, k1, A)>> ELSE <<>>
        exithigh == IF b > k2 /\ a <= k2 THEN <<intersect(p, q, k2, A)>> ELSE <<>>
    IN  enter \o exitlow \o exithigh

\* the loop over line_strip.0.windows(2), from window i on
RECURSIVE Walk(_, _, _, _, _)
Walk(ls, i, k1, k2, A) ==
    IF i >= Len(ls) THEN <<>>
    ELSE EdgePoints(ls[i], ls[i + 1], k1, k2, A) \o Walk(ls, i + 1, k1, k2, A)

\* add last point
AddLast(result, ls, k1, k2, A) ==
    IF ls # <<>> /\ coord(ls[Len(ls)], A) >= k1 /\ coord(ls[Len(ls)], A) <= k2
    THEN Append(result, ls[Len(ls)])
    ELSE result

\* a clip that leaves the result as the walk produced it
CloseRingNot(result) == result

\* close the polygon if its endpoints are not the same after clipping
CloseRing(result) ==
    IF result # <<>> /\ result[1] # result[Len(result)]
    THEN Append(result, result[1])
    ELSE result

\* assert!(k1 <= k2) holds of every call: the intervals and the rects handed
\* to the clip have k1 <= k2
clip_line(ls, k1, k2, A) ==
    IF TrivialReject(ls, k1, k2, A) THEN <<>>
    ELSE IF TrivialAccept(ls, k1, k2, A) THEN ls
    ELSE CloseRing(AddLast(Walk(ls, 1, k1, k2, A), ls, k1, k2, A))

\* clip along X, then clip the result along Y
clip_ring(ls, rect) ==
    clip_line(clip_line(ls, rect.min[1], rect.max[1], "X"),
              rect.min[2], rect.max[2], "Y")

\* geo::Polygon::from(rect)
RectPolygon(rect) ==
    [exterior |-> << <<rect.min[1], rect.min[2]>>, <<rect.max[1], rect.min[2]>>,
                     <<rect.max[1], rect.max[2]>>, <<rect.min[1], rect.max[2]>>,
                     <<rect.min[1], rect.min[2]>> >>,
     interiors |-> <<>>]

(***************************************************************************)
(* polygon.contains(&rect_polygon): geo's Contains<Polygon> for Polygon.   *)
(* The rectangle's four edges must each lie in the polygon: both end       *)
(* points strictly inside the exterior and outside every hole, and the     *)
(* edge meeting neither the exterior nor a hole.  It is evaluated exactly, *)
(* on the coordinates divided by their common power of two.                *)
(***************************************************************************)
Min2(a, b) == IF a < b THEN a ELSE b

Max2(a, b) == IF a > b THEN a ELSE b

RingValues(ls) == {ls[i][1] : i \in 1..Len(ls)} \cup {ls[i][2] : i \in 1..Len(ls)}

PolygonValues(polygon) ==
    RingValues(polygon.exterior)
        \cup UNION {RingValues(polygon.interiors[i]) : i \in 1..Len(polygon.interiors)}

\* the largest c <= FracBits with 2^c dividing every value of S
CommonTwos(S) ==
    LET T == {Twos(Abs(v), FracBits) : v \in S \ {0}}
    IN  IF T = {} THEN FracBits ELSE CHOOSE c \in T : \A d \in T : c <= d

ScaleRing(ls, c) ==
    [i \in 1..Len(ls) |-> <<ls[i][1] \div 2 ^ c, ls[i][2] \div 2 ^ c>>]

ScalePolygon(polygon, c) ==
    [exterior |-> ScaleRing(polygon.exterior, c),
     interiors |-> [i \in 1..Len(polygon.interiors) |->
                        ScaleRing(polygon.interiors[i], c)]]

\* the point p lies on the closed segment from a to b
OnSegment(p, a, b) ==
    /\ (b[1] - a[1]) * (p[2] - a[2]) = (b[2] - a[2]) * (p[1] - a[1])
    /\ Min2(a[1], b[1]) <= p[1] /\ p[1] <= Max2(a[1], b[1])
    /\ Min2(a[2], b[2]) <= p[2] /\ p[2] <= Max2(a[2], b[2])

\* LineString contains Point
OnRing(p, ls) ==
    \/ \E i \in 1..Len(ls) : ls[i] = p
    \/ \E i \in 1..(Len(ls) - 1) : OnSegment(p, ls[i], ls[i + 1])

\* one edge of the ring counts as a crossing of the ray from p
Crossing(p, s, e) ==
    /\ p[2] > Min2(s[2], e[2])
    /\ p[2] <= Max2(s[2], e[2])
    /\ p[1] <= Max2(s[1], e[1])
    /\ \/ s[1] = e[1]
       \/ IF e[2] > s[2]
          THEN (p[1] - s[1]) * (e[2] - s[2]) <= (p[2] - s[2]) * (e[1] - s[1])
          ELSE (p[1] - s[1]) * (e[2] - s[2]) >= (p[2] - s[2]) * (e[1] - s[1])

get_position(p, ls) ==
    IF ls = <<>> THEN "Outside"
    ELSE IF OnRing(p, ls) THEN "OnBoundary"
    ELSE IF Cardinality({i \in 1..(Len(ls) - 1) : Crossing(p, ls[i], ls[i + 1])}) % 2 = 1
         THEN "Inside"
         ELSE "Outside"

\* Line intersects Line: the closed segments p1-p2 and q1-q2 share a point
LineIntersects(p1, p2, q1, q2) ==
    LET a1 == p2[1] - p1[1]
        a2 == p2[2] - p1[2]
        b1 == -(q2[1] - q1[1])
        b2 == -(q2[2] - q1[2])
        c1 == q1[1] - p1[1]
        c2 == q1[2] - p1[2]
        d == a1 * b2 - a2 * b1
        sn == c1 * b2 - c2 * b1
        tn == a1 * c2 - a2 * c1
    IN  IF d = 0
        THEN \/ OnSegment(p1, q1, q2) \/ OnSegment(p2, q1, q2)
             \/ OnSegment(q1, p1, p2) \/ OnSegment(q2, p1, p2)
        ELSE IF d > 0
             THEN 0 <= sn /\ sn <= d /\ 0 <= tn /\ tn <= d
             ELSE d <= sn /\ sn <= 0 /\ d <= tn /\ tn <= 0

\* LineString intersects Line
RingIntersects(ls, a, b) ==
    \E i \in 1..(Len(ls) - 1) : LineIntersects(ls[i], ls[i + 1], a, b)

\* Polygon contains Point
PolygonContainsPoint(polygon, p) ==
    /\ get_position(p, polygon.exterior) = "Inside"
    /\ \A i \in 1..Len(polygon.interiors) :
           get_position(p, polygon.interiors[i]) = "Outside"

\* Polygon contains Line
PolygonContainsLine(polygon, a, b) ==
    /\ PolygonContainsPoint(polygon, a)
    /\ PolygonContainsPoint(polygon, b)
    /\ ~RingIntersects(polygon.exterior, a, b)
    /\ \A i \in 1..Len(polygon.interiors) :
           ~RingIntersects(polygon.interiors[i], a, b)

\* Polygon contains Polygon
contains(polygon, other) ==
    LET c == CommonTwos(PolygonValues(polygon) \cup PolygonValues(other))
        P == ScalePolygon(polygon, c)
        ext == ScaleRing(other.exterior, c)
    IN  \A i \in 1..(Len(ext) - 1) : PolygonContainsLine(P, ext[i], ext[i + 1])

\* a fallback that drops the source polygon's holes with the exterior
FallbackInteriorsDropped(polygon, rect, fallback) ==
    IF fallback THEN <<>>
    ELSE [i \in 1..Len(polygon.interiors) |-> clip_ring(polygon.interiors[i], rect)]

\* the interiors clip_polygon returns: every hole of the source, clipped
ClippedInteriors(polygon, rect, fallback) ==
    [i \in 1..Len(polygon.interiors) |-> clip_ring(polygon.interiors[i], rect)]

\* the containment fallback applies: the clipped exterior is empty and the
\* polygon contains the rect
Fallback(polygon, rect) ==
    /\ Len(clip_ring(polygon.exterior, rect)) = 0
    /\ contains(polygon, RectPolygon(rect))

clip_polygon(polygon, rect) ==
    [exterior |-> IF Fallback(polygon, rect)
                  THEN RectPolygon(rect).exterior
                  ELSE clip_ring(polygon.exterior, rect),
     interiors |-> ClippedInteriors(polygon, rect, Fallback(polygon, rect))]

(***************************************************************************)
(* The pure functions are applied to arguments drawn from bounded sets:    *)
(* call holds the function and its arguments, ret its result.              *)
(***************************************************************************)
NoRet == [done |-> FALSE]

Returned(v) == [done |-> TRUE, val |-> v]

\* the tile generator is not running while a pure function is applied
NoSystem ==
    /\ conf = <<>>
    /\ nworkers = 1
    /\ mainpc = "done"
    /\ nextsrc = 1
    /\ senders = 0
    /\ injector = <<>>
    /\ deque = [w \in 1..MaxWorkers |-> <<>>]
    /\ stack = [w \in 1..MaxWorkers |-> <<>>]
    /\ done = {}
    /\ chan = <<>>
    /\ sent = EmptyBag
    /\ received = EmptyBag

sysvars == <<conf, nworkers, mainpc, nextsrc, senders, injector, deque, stack,
             done, chan, sent, received>>

(***************************************************************************)
(* The arguments of clip_line and clip_polygon.                            *)
(***************************************************************************)
\* the coordinates of the vertices of the polygons: -3, 0, 4
CoordVals == {-3 * Grid, 0, 4 * Grid}

\* the bounds of the clip intervals: -1, 3/4, 4
BoundVals == {-Grid, (3 * Grid) \div 4, 4 * Grid}

Points == CoordVals \X CoordVals

\* the vertices of the rings handed to clip_line: -3, -1, 0 or 4 along the
\* axis of the clip, 0 or 4 along the other
AxisPointsX == (CoordVals \cup {-Grid}) \X {0, 4 * Grid}

AxisPointsY == {0, 4 * Grid} \X (CoordVals \cup {-Grid})

\* every ring of at most MaxRingLen vertices over P, closed or not
Rings(P) == UNION {[1..n -> P] : n \in 0..MaxRingLen}

Closed(ls) == ls # <<>> => ls[1] = ls[Len(ls)]

\* the triangles over Points, closed
Triangles ==
    {<<p, q, r, p>> : <<p, q, r>> \in
        {t \in Points \X Points \X Points : t[1] # t[2] /\ t[2] # t[3] /\ t[1] # t[3]}}

\* the square from (-3, -3) to (4, 4)
BigSquare ==
    << <<-3 * Grid, -3 * Grid>>, <<4 * Grid, -3 * Grid>>, <<4 * Grid, 4 * Grid>>,
       <<-3 * Grid, 4 * Grid>>, <<-3 * Grid, -3 * Grid>> >>

\* a hole inside the rect from (-1, -1) to (3/4, 3/4)
HoleInside ==
    << <<0, 0>>, <<Grid \div 2, 0>>, <<0, Grid \div 2>>, <<0, 0>> >>

\* a hole of BigSquare outside that rect
HoleOutside ==
    << <<Grid, Grid>>, <<3 * Grid, Grid>>, <<Grid, 3 * Grid>>, <<Grid, Grid>> >>

\* a hole of BigSquare across that rect's boundary
HoleAcross ==
    << <<0, 0>>, <<2 * Grid, 0>>, <<0, 2 * Grid>>, <<0, 0>> >>

Polygons ==
    {[exterior |-> e, interiors |-> h] :
        e \in Triangles, h \in {<<>>, <<HoleInside>>}}
    \cup {[exterior |-> BigSquare, interiors |-> h] :
        h \in {<<>>, <<HoleInside>>, <<HoleOutside>>, <<HoleAcross>>,
               <<HoleOutside, HoleInside>>}}

\* min.x <= max.x, min.y <= max.y
Rects ==
    {[min |-> <<x1, y1>>, max |-> <<x2, y2>>] :
        <<x1, x2, y1, y2>> \in
            {b \in BoundVals \X BoundVals \X BoundVals \X BoundVals :
                b[1] <= b[2] /\ b[3] <= b[4]}}

Intervals == {b \in BoundVals \X BoundVals : b[1] <= b[2]}

\* call is a call of clip_line along axis A, its ring over P
ClipLineCall(P, A) ==
    \E ls \in Rings(P), k \in Intervals :
        call = [fn |-> "clip_line", line_strip |-> ls, k1 |-> k[1], k2 |-> k[2],
                axis |-> A]

\* call is a call of clip_polygon
ClipPolygonCall ==
    \E p \in Polygons, r \in Rects :
        call = [fn |-> "clip_polygon", polygon |-> p, rect |-> r]

ApplyClipLine ==
    /\ call.fn = "clip_line"
    /\ ~ret.done
    /\ ret' = Returned(clip_line(call.line_strip, call.k1, call.k2, call.axis))
    /\ UNCHANGED <<call, sysvars>>

ApplyClipPolygon ==
    /\ call.fn = "clip_polygon"
    /\ ~ret.done
    /\ ret' = Returned(clip_polygon(call.polygon, call.rect))
    /\ UNCHANGED <<call, sysvars>>

InitClip ==
    /\ NoSystem
    /\ \/ ClipLineCall(AxisPointsX, "X")
       \/ ClipLineCall(AxisPointsY, "Y")
       \/ ClipPolygonCall
    /\ ret = NoRet

NextClip == ApplyClipLine \/ ApplyClipPolygon

SpecClip == InitClip /\ [][NextClip]_vars

(***************************************************************************)
(* shapefile.rs: the decoder.  A buffer is a sequence of bytes.  A parser  *)
(* takes its input and the offset of that input in the buffer, and yields  *)
(* the value parsed and the input left, or an error.                       *)
(***************************************************************************)
Ok(v, rest) == [ok |-> TRUE, val |-> v, rest |-> rest]

\* Err(Err::Error(_))
Error == [ok |-> FALSE, kind |-> "Error"]

\* Err(Err::Incomplete(_))
Incomplete == [ok |-> FALSE, kind |-> "Incomplete"]

\* take!(n)
take(i, n) ==
    IF Len(i) >= n THEN Ok(SubSeq(i, 1, n), SubSeq(i, n + 1, Len(i))) ELSE Incomplete

\* the value of four bytes, the first the least significant
LeValue(b) == b[1] + 256 * (b[2] + 256 * (b[3] + 256 * b[4]))

le_u32(i) ==
    LET r == take(i, 4)
    IN  IF r.ok THEN Ok(LeValue(r.val), r.rest) ELSE r

be_u32(i) ==
    LET r == take(i, 4)
    IN  IF r.ok THEN Ok(LeValue(<<r.val[4], r.val[3], r.val[2], r.val[1]>>), r.rest)
        ELSE r

\* two's complement: a first byte of 128 or more makes the value negative
be_i32(i) ==
    LET r == take(i, 4)
    IN  IF r.ok
        THEN Ok(LeValue(<<r.val[4], r.val[3], r.val[2],
                          IF r.val[1] >= 128 THEN r.val[1] - 256 ELSE r.val[1]>>),
                r.rest)
        ELSE r

\* four le_f64: a coordinate is kept as its eight bytes
parse_rect(i) ==
    LET r == take(i, 32)
    IN  IF r.ok
        THEN Ok([min |-> <<SubSeq(r.val, 1, 8), SubSeq(r.val, 9, 16)>>,
                 max |-> <<SubSeq(r.val, 17, 24), SubSeq(r.val, 25, 32)>>], r.rest)
        ELSE r

\* the elements of bytes read as values of the given size
slice_transmute(bytes, size) ==
    [k \in 1..(Len(bytes) \div size) |-> SubSeq(bytes, (k - 1) * size + 1, k * size)]

\* F applied to the value of r
Bind(r, F(_)) == CHOOSE out \in {F(x) : x \in {r}} : TRUE

\* the >> of do_parse!: the parser F goes on from the result of r, and an
\* error of r is the error of the sequence
AndThen(r, F(_)) == Bind(r, LAMBDA x : IF x.ok THEN F(x) ELSE x)

\* the ShapeRecord of a record at offset at of the buffer.  aligned tells
\* whether the two slices slice_transmute makes are aligned for u32 and for
\* [f64; 2], the buffer itself being aligned; with a misaligned slice the
\* behaviour is undefined.
ShapeRecord(bounding_rect, parts, points, at) ==
    [bounding_rect |-> bounding_rect,
     parts |-> [k \in 1..Len(slice_transmute(parts, 4)) |->
                   LeValue(slice_transmute(parts, 4)[k])],
     points |-> [k \in 1..Len(slice_transmute(points, 16)) |->
                    <<SubSeq(slice_transmute(points, 16)[k], 1, 8),
                      SubSeq(slice_transmute(points, 16)[k], 9, 16)>>],
     aligned |-> (at + 44) % 4 = 0 /\ (at + 44 + Len(parts)) % 8 = 0]

\* the content of a record, at offset at of the buffer: the do_parse! inside
\* length_value!
parse_record_content(i, at) ==
    AndThen(le_u32(i), LAMBDA shape_type :
        IF shape_type.val # 5 THEN Error
        ELSE
    AndThen(parse_rect(shape_type.rest), LAMBDA bounding_rect :
    AndThen(le_u32(bounding_rect.rest), LAMBDA num_parts :
    AndThen(le_u32(num_parts.rest), LAMBDA num_points :
    AndThen(take(num_points.rest, num_parts.val * 4), LAMBDA parts :
    AndThen(take(parts.rest, num_points.val * 2 * 8), LAMBDA points :
        Ok(ShapeRecord(bounding_rect.val, parts.val, points.val, at),
           points.rest)))))))

\* preceded!(take!(4), length_value!(be_i32 * 2, content)): the content is
\* parsed in the slice the length announces, and a content that does not
\* parse in it is an Error; a negative length is, as usize, more than any
\* buffer holds
parse_record(i, at) ==
    AndThen(take(i, 4), LAMBDA number :
    AndThen(be_i32(number.rest), LAMBDA length :
    AndThen(IF length.val < 0 THEN Incomplete ELSE take(length.rest, length.val * 2),
            LAMBDA slice :
    Bind(parse_record_content(slice.val, at + 8), LAMBDA content :
        IF content.ok THEN Ok(content.val, slice.rest) ELSE Error))))

\* complete!: Incomplete becomes an Error
complete(r) == IF r.ok THEN r ELSE Error

\* the loop of many1! after the first record: the first record that does
\* not parse ends the loop, and the records parsed so far are the result
RECURSIVE many1_loop(_, _, _)
many1_loop(i, at, res) ==
    Bind(complete(parse_record(i, at)), LAMBDA r :
        IF ~r.ok THEN Ok(res, i)
        ELSE IF Len(r.rest) = Len(i) THEN Ok(res, i)
        ELSE many1_loop(r.rest, at + Len(i) - Len(r.rest), Append(res, r.val)))

\* many1!(complete!(parse_record))
many1(i, at) ==
    Bind(complete(parse_record(i, at)), LAMBDA r :
        IF ~r.ok THEN Error
        ELSE many1_loop(r.rest, at + Len(i) - Len(r.rest), <<r.val>>))

parse_shp(i) ==
    AndThen(be_u32(i), LAMBDA magic :
        IF magic.val # 9994 THEN Error
        ELSE
    AndThen(take(magic.rest, 24), LAMBDA skip1 :
    AndThen(le_u32(skip1.rest), LAMBDA version :
        IF version.val # 1000 THEN Error
        ELSE
    AndThen(le_u32(version.rest), LAMBDA shape_type :
        IF shape_type.val # 5 THEN Error
        ELSE
    AndThen(take(shape_type.rest, 64), LAMBDA skip2 :
    AndThen(many1(skip2.rest, 100), LAMBDA records :
        Ok([records |-> records.val], records.rest)))))))

\* the process aborts (a debug build checks the precondition of
\* slice::from_raw_parts)
Abort == [ok |-> FALSE, kind |-> "Abort"]

\* what parse_shp can do on a buffer: its result, or with a misaligned
\* slice one of the outcomes of the undefined behaviour: the same result
\* (an unaligned load that the processor performs) or an abort
ParseOutcomes(i) ==
    UNION {{r} \cup IF r.ok /\ \E k \in 1..Len(r.val.records) : ~r.val.records[k].aligned
                    THEN {Abort}
                    ELSE {}
           : r \in {parse_shp(i)}}

(***************************************************************************)
(* shapefile.rs: the ring assembly.  A ShapeRecord here is [parts, points] *)
(* with parts the u32 start indices and points the decoded [x, y] pairs;   *)
(* the coordinates are small integers, which f64 holds exactly, as it does *)
(* the areas computed from them.                                           *)
(***************************************************************************)
\* the end of part index: the start of the next part, or points.len()
part_end(record, index) ==
    IF index + 2 <= Len(record.parts)
    THEN record.parts[index + 2]
    ELSE Len(record.points)

\* &self.points[start..end] panics unless start <= end <= points.len()
part_in_range(record, index) ==
    /\ record.parts[index + 1] <= part_end(record, index)
    /\ part_end(record, index) <= Len(record.points)

part(record, index) ==
    SubSeq(record.points, record.parts[index + 1] + 1, part_end(record, index))

linestring(record, index) == part(record, index)

multi_linestring(record) ==
    [k \in 1..Len(record.parts) |-> linestring(record, k - 1)]

\* l.bounding_rect().map(|x| x.area()).unwrap_or(0.0)
bounding_area(l) ==
    IF l = <<>> THEN 0
    ELSE LET xs == {l[k][1] : k \in 1..Len(l)}
             ys == {l[k][2] : k \in 1..Len(l)}
             xmin == CHOOSE v \in xs : \A u \in xs : v <= u
             xmax == CHOOSE v \in xs : \A u \in xs : v >= u
             ymin == CHOOSE v \in ys : \A u \in ys : v <= u
             ymax == CHOOSE v \in ys : \A u \in ys : v >= u
         IN  (xmax - xmin) * (ymax - ymin)

\* a comparison with the two orderings exchanged
compare_reversed(l1, l2) ==
    IF bounding_area(l1) > bounding_area(l2) THEN "Less" ELSE "Greater"

\* the closure handed to sort_by: it never answers Equal
compare(l1, l2) ==
    IF bounding_area(l1) > bounding_area(l2) THEN "Greater" ELSE "Less"

\* the results sort_by may leave for v: the rearrangements of v in which no
\* element compares Greater than its successor.  Where the closure is not a
\* total order (rings of equal area) the order sort_by leaves is unspecified.
sort_by(v) ==
    {w \in {[k \in 1..Len(v) |-> v[p[k]]] : p \in Permutations(1..Len(v))} :
        \A k \in 1..(Len(v) - 1) : compare(w[k], w[k + 1]) # "Greater"}

\* the caller's thread panics
Panic == [ok |-> FALSE, kind |-> "Panic"]

\* the polygons geo::Polygon::from(record) may return
from_record(record) ==
    IF Len(record.parts) = 0
    THEN {Ok([exterior |-> <<>>, interiors |-> <<>>], <<>>)}
    ELSE IF Len(record.parts) = 1
    THEN IF part_in_range(record, 0)
         THEN {Ok([exterior |-> linestring(record, 0), interiors |-> <<>>], <<>>)}
         ELSE {Panic}
    ELSE IF \E k \in 1..Len(record.parts) : ~part_in_range(record, k - 1)
    THEN {Panic}
    ELSE {Ok([exterior |-> linestrings[Len(linestrings)],
              interiors |-> SubSeq(linestrings, 1, Len(linestrings) - 1)], <<>>) :
             linestrings \in sort_by(multi_linestring(record))}

(***************************************************************************)
(* The buffers handed to parse_shp and the records handed to the ring      *)
(* assembly.                                                               *)
(***************************************************************************)
U32LE(v) == <<v % 256, (v \div 256) % 256, (v \div 65536) % 256, v \div 16777216>>

U32BE(v) == <<v \div 16777216, (v \div 65536) % 256, (v \div 256) % 256, v % 256>>

Zeros(n) == [k \in 1..n |-> 0]

\* the 100 bytes of the header: right, or wrong in one of its three fields
HeaderKinds == {"right", "magic", "version", "shape type"}

HeaderBytes(h) ==
    U32BE(IF h = "magic" THEN 9995 ELSE 9994) \o Zeros(24)
        \o U32LE(IF h = "version" THEN 1001 ELSE 1000)
        \o U32LE(IF h = "shape type" THEN 3 ELSE 5) \o Zeros(64)

\* a record slot: "empty" a polygon of no parts and no points; "ring" a
\* polygon of one part and one point; "point type" an empty polygon with
\* shape type 1 for 5; "overrun" an empty polygon that announces a point
\* its content does not hold
RecordKinds == {"empty", "ring", "point type", "overrun"}

RecordBytes(kind) ==
    U32BE(1)
        \o U32BE(IF kind = "ring" THEN 32 ELSE 22)
        \o U32LE(IF kind = "point type" THEN 1 ELSE 5)
        \o Zeros(32)
        \o U32LE(IF kind = "ring" THEN 1 ELSE 0)
        \o U32LE(IF kind \in {"ring", "overrun"} THEN 1 ELSE 0)
        \o (IF kind = "ring" THEN U32LE(0) \o Zeros(16) ELSE <<>>)

RECURSIVE RecordsBytes(_)
RecordsBytes(kinds) ==
    IF kinds = <<>> THEN <<>>
    ELSE RecordBytes(Head(kinds)) \o RecordsBytes(Tail(kinds))

\* the numbers of bytes cut off the end of a buffer
Cuts == {0, 2, 30}

\* the buffer of a header, record slots and a cut
Buffer(h, kinds, cut) ==
    LET whole == HeaderBytes(h) \o RecordsBytes(kinds)
    IN  SubSeq(whole, 1, Len(whole) - cut)

\* call is a call of parse_shp
ParseShpCall ==
    \E h \in HeaderKinds, cut \in Cuts :
        \E kinds \in UNION {[1..n -> RecordKinds] : n \in 0..MaxRecords} :
            call = [fn |-> "parse_shp", header |-> h, records |-> kinds, cut |-> cut,
                    data |-> Buffer(h, kinds, cut)]

\* triangles of bounding-box area 16, 16, 1 and 0, and the empty ring
RingBig == << <<0, 0>>, <<4, 0>>, <<0, 4>>, <<0, 0>> >>

RingWide == << <<0, 0>>, <<8, 0>>, <<0, 2>>, <<0, 0>> >>

RingSmall == << <<1, 1>>, <<2, 1>>, <<1, 2>>, <<1, 1>> >>

RingFlat == << <<1, 1>>, <<3, 1>>, <<1, 1>> >>

RingCatalogue == {RingBig, RingWide, RingSmall, RingFlat, <<>>}

\* the record whose parts are the given rings, in their order
RECURSIVE RecordOf(_)
RecordOf(rings) ==
    IF rings = <<>> THEN [parts |-> <<>>, points |-> <<>>]
    ELSE LET r == RecordOf(SubSeq(rings, 1, Len(rings) - 1))
         IN  [parts |-> Append(r.parts, Len(r.points)),
              points |-> r.points \o rings[Len(rings)]]

\* records whose part indices do not fit their points
BadRecords ==
    {[parts |-> <<0, 9>>, points |-> RingBig], [parts |-> <<3, 1>>, points |-> RingBig],
     [parts |-> <<7>>, points |-> RingBig]}

\* call is a conversion of a record into a polygon
FromRecordCall ==
    \/ \E rings \in UNION {[1..n -> RingCatalogue] : n \in 0..MaxParts} :
           call = [fn |-> "from", record |-> RecordOf(rings)]
    \/ \E r \in BadRecords : call = [fn |-> "from", record |-> r]

ApplyParseShp ==
    /\ call.fn = "parse_shp"
    /\ ~ret.done
    /\ \E r \in ParseOutcomes(call.data) : ret' = Returned(r)
    /\ UNCHANGED <<call, sysvars>>

ApplyFromRecord ==
    /\ call.fn = "from"
    /\ ~ret.done
    /\ \E p \in from_record(call.record) : ret' = Returned(p)
    /\ UNCHANGED <<call, sysvars>>

InitShp ==
    /\ NoSystem
    /\ ParseShpCall \/ FromRecordCall
    /\ ret = NoRet

NextShp == ApplyParseShp \/ ApplyFromRecord

SpecShp == InitShp /\ [][NextShp]_vars

(***************************************************************************)
(* main.rs: get_tile.                                                      *)
(***************************************************************************)
\* an overlap that is not halved: each side moves by the whole of it
tile_overlap_whole(span, overlap) == FMul(span, overlap)

\* (xmax - xmin) * overlap / 2.0, and the same for y
tile_overlap(span, overlap) == FDiv(FMul(span, overlap), FromInt(2))

get_tile(x, y, zoom, overlap) ==
    LET tile_width == FMul(FromInt(360), Powi2(zoom))
        tile_height == FMul(FromInt(180), Powi2(zoom))
        xmin == FAdd(FromInt(-180), FMul(FromInt(x), tile_width))
        xmax == FAdd(xmin, tile_width)
        ymin == FAdd(FromInt(-90), FMul(FromInt(y), tile_height))
        ymax == FAdd(ymin, tile_height)
        x_overlap == tile_overlap(FSub(xmax, xmin), overlap)
        y_overlap == tile_overlap(FSub(ymax, ymin), overlap)
    IN  [min |-> <<FSub(xmin, x_overlap), FSub(ymin, y_overlap)>>,
         max |-> <<FAdd(xmax, x_overlap), FAdd(ymax, y_overlap)>>]

\* the overlaps handed to get_tile: 0, 1/10 (as the format holds it), 1/2, 1
Overlaps == {0, FDiv(FromInt(1), FromInt(10)), Grid \div 2, Grid}

\* call is a call of get_tile for a tile of a level up to MaxZoom
GetTileCall ==
    \E z \in 0..MaxZoom, o \in Overlaps :
        \E x, y \in 0..(2 ^ z - 1) :
            call = [fn |-> "get_tile", x |-> x, y |-> y, zoom |-> -z, overlap |-> o]

ApplyGetTile ==
    /\ call.fn = "get_tile"
    /\ ~ret.done
    /\ ret' = Returned(get_tile(call.x, call.y, call.zoom, call.overlap))
    /\ UNCHANGED <<call, sysvars>>

InitTile ==
    /\ NoSystem
    /\ GetTileCall
    /\ ret = NoRet

NextTile == ApplyGetTile

SpecTile == InitTile /\ [][NextTile]_vars

(***************************************************************************)
(* The main thread.                                                        *)
(***************************************************************************)
\* rayon::spawn(move || write_tile_recursive(tx1, &polygons, (0, 0, 0), opts))
\* with tx1 = tx.clone()
MainSpawn ==
    /\ mainpc = "spawn"
    /\ nextsrc <= Len(conf)
    /\ senders' = senders + 1
    /\ injector' = Append(injector, Root(nextsrc))
    /\ nextsrc' = nextsrc + 1
    /\ UNCHANGED <<call, ret, conf, nworkers, mainpc, deque, stack, done, chan, sent,
                   received>>

\* main keeps its sender alive while it consumes
KeepSender(n) == n

\* std::mem::drop(tx)
DropSender(n) == n - 1

MainDrop ==
    /\ mainpc = "spawn"
    /\ nextsrc > Len(conf)
    /\ senders' = DropSender(senders)
    /\ mainpc' = "recv"
    /\ UNCHANGED <<call, ret, conf, nworkers, nextsrc, injector, deque, stack, done, chan,
                   sent, received>>

\* for req in rx { write_geojson(..) }: one iteration
MainRecv ==
    /\ mainpc = "recv"
    /\ chan # <<>>
    /\ received' = received (+) SetToBag({Head(chan)})
    /\ chan' = Tail(chan)
    /\ UNCHANGED <<call, ret, conf, nworkers, mainpc, nextsrc, senders, injector, deque,
                   stack, done, sent>>

\* the iterator over rx ends: the channel is empty and every sender is dropped
MainFinish ==
    /\ mainpc = "recv"
    /\ chan = <<>>
    /\ senders = 0
    /\ mainpc' = "done"
    /\ UNCHANGED <<call, ret, conf, nworkers, nextsrc, senders, injector, deque, stack,
                   done, chan, sent, received>>

(***************************************************************************)
(* write_tile_recursive, run as a job by worker w.  A worker takes the     *)
(* newest job of its own deque; with none, it steals the oldest job of     *)
(* another worker's deque or of the injector (rayon's work stealing).      *)
(***************************************************************************)
\* the frame of a job that starts: get_tile, create_tile and the test
\* z < max_level are done
Frame(n) ==
    [tile |-> n, pc |-> IF Recurses(n) THEN "spawn" ELSE "emit", k |-> 0]

\* the senders after a job starts: let tx = tx.clone() for the scope
StartSenders(n) == IF Recurses(n) THEN senders + 1 ELSE senders

TakeLocal(w) ==
    /\ CanStart(w)
    /\ deque[w] # <<>>
    /\ LET n == deque[w][Len(deque[w])]
       IN  /\ deque' = [deque EXCEPT ![w] = SubSeq(@, 1, Len(@) - 1)]
           /\ stack' = [stack EXCEPT ![w] = Append(@, Frame(n))]
           /\ senders' = StartSenders(n)
    /\ UNCHANGED <<call, ret, conf, nworkers, mainpc, nextsrc, injector, done, chan, sent,
                   received>>

Steal(w, v) ==
    /\ CanStart(w)
    /\ deque[w] = <<>>
    /\ v # w
    /\ deque[v] # <<>>
    /\ LET n == Head(deque[v])
       IN  /\ deque' = [deque EXCEPT ![v] = Tail(@)]
           /\ stack' = [stack EXCEPT ![w] = Append(@, Frame(n))]
           /\ senders' = StartSenders(n)
    /\ UNCHANGED <<call, ret, conf, nworkers, mainpc, nextsrc, injector, done, chan, sent,
                   received>>

TakeInjected(w) ==
    /\ CanStart(w)
    /\ deque[w] = <<>>
    /\ injector # <<>>
    /\ LET n == Head(injector)
       IN  /\ injector' = Tail(injector)
           /\ stack' = [stack EXCEPT ![w] = Append(@, Frame(n))]
           /\ senders' = StartSenders(n)
    /\ UNCHANGED <<call, ret, conf, nworkers, mainpc, nextsrc, deque, done, chan, sent,
                   received>>

\* s.spawn(|_| write_tile_recursive(txk, &poly, child k, to)) with
\* txk = tx.clone(); after the fourth the scope's closure ends, its tx is
\* dropped and the worker waits for the scope's latch
Spawn(w) ==
    /\ stack[w] # <<>>
    /\ Top(w).pc = "spawn"
    /\ LET f == Top(w)
           k == f.k + 1
       IN  /\ deque' = [deque EXCEPT ![w] = Append(@, Child(f.tile, k))]
           /\ stack' = SetTop(w, [f EXCEPT !.k = k,
                                           !.pc = IF k = 4 THEN "wait" ELSE "spawn"])
           /\ senders' = IF k = 4 THEN senders ELSE senders + 1
    /\ UNCHANGED <<call, ret, conf, nworkers, mainpc, nextsrc, injector, done, chan, sent,
                   received>>

\* the scope has ended (or there was none): simplify, then tx.send(req)
Emit(w) ==
    /\ stack[w] # <<>>
    /\ \/ Top(w).pc = "emit"
       \/ Top(w).pc = "wait" /\ LatchSet(Top(w).tile)
    /\ chan' = Append(chan, Top(w).tile)
    /\ sent' = sent (+) SetToBag({Top(w).tile})
    /\ stack' = SetTop(w, [Top(w) EXCEPT !.pc = "ret"])
    /\ UNCHANGED <<call, ret, conf, nworkers, mainpc, nextsrc, senders, injector, deque,
                   done, received>>

\* write_tile_recursive returns: its tx is dropped and the job is complete
Return(w) ==
    /\ stack[w] # <<>>
    /\ Top(w).pc = "ret"
    /\ done' = done \cup {Top(w).tile}
    /\ stack' = [stack EXCEPT ![w] = Pop(w)]
    /\ senders' = senders - 1
    /\ UNCHANGED <<call, ret, conf, nworkers, mainpc, nextsrc, injector, deque, chan, sent,
                   received>>

Worker(w) ==
    \/ TakeLocal(w)
    \/ \E v \in 1..nworkers : Steal(w, v)
    \/ TakeInjected(w)
    \/ Spawn(w)
    \/ Emit(w)
    \/ Return(w)

MainThread == MainSpawn \/ MainDrop \/ MainRecv \/ MainFinish

\* the number of tiles of the sources from s on
RECURSIVE TotalTiles(_, _)
TotalTiles(c, s) ==
    IF s > Len(c) THEN 0 ELSE Cardinality(Tiles(s, c[s])) + TotalTiles(c, s + 1)

Init ==
    /\ conf \in UNION {[1..n -> 0..MaxLevel] : n \in 0..MaxSources}
    /\ nworkers \in 1..MaxWorkers
    /\ nworkers * TotalTiles(conf, 1) <= MaxLoad
    /\ mainpc = "spawn"
    /\ nextsrc = 1
    /\ senders = 1
    /\ injector = <<>>
    /\ deque = [w \in 1..MaxWorkers |-> <<>>]
    /\ stack = [w \in 1..MaxWorkers |-> <<>>]
    /\ done = {}
    /\ chan = <<>>
    /\ sent = EmptyBag
    /\ received = EmptyBag
    /\ call = [fn |-> "none"]
    /\ ret = NoRet

Next ==
    \/ MainSpawn
    \/ MainDrop
    \/ MainRecv
    \/ MainFinish
    \/ \E w \in 1..nworkers : TakeLocal(w)
    \/ \E w \in 1..nworkers : \E v \in 1..nworkers : Steal(w, v)
    \/ \E w \in 1..nworkers : TakeInjected(w)
    \/ \E w \in 1..nworkers : Spawn(w)
    \/ \E w \in 1..nworkers : Emit(w)
    \/ \E w \in 1..nworkers : Return(w)

Spec == Init /\ [][Next]_vars

\* every worker thread of the pool and the main thread keep running: a step
\* one of them can take for ever is eventually taken
FairSpec ==
    /\ Spec
    /\ WF_vars(MainThread)
    /\ \A w \in 1..MaxWorkers : WF_vars(w <= nworkers /\ Worker(w))

(***************************************************************************)
(* The claims about the tile generator, under Spec and FairSpec.           *)
(***************************************************************************)
SentTiles == BagToSet(sent)

\* the tiles below n in the quadtree of its source
Descendants(n) ==
    {m \in Tiles(n[1], conf[n[1]]) :
        /\ m[2] > n[2]
        /\ m[3] \div Pow2(m[2] - n[2]) = n[3]
        /\ m[4] \div Pow2(m[2] - n[2]) = n[4]}

\* C1: for a source with max_level = L, under every interleaving, only
\* coordinates (z, x, y) with 0 <= z <= L, 0 <= x, y < 2^z are sent, none is
\* sent twice, and once the root's write_tile_recursive has returned every
\* one of them has been sent exactly once.
C1_EachTileOnce ==
    /\ \A n \in SentTiles :
           /\ n[1] \in 1..Len(conf)
           /\ 0 <= n[2] /\ n[2] <= conf[n[1]]
           /\ 0 <= n[3] /\ n[3] < 2 ^ n[2]
           /\ 0 <= n[4] /\ n[4] < 2 ^ n[2]
           /\ CopiesIn(n, sent) = 1
    /\ \A s \in 1..Len(conf) :
           Root(s) \in done =>
               \A z \in 0..conf[s] : \A x, y \in 0..(2 ^ z - 1) :
                   CopiesIn(<<s, z, x, y>>, sent) = 1

\* the quadtree of a source of the largest max_level has run to its end and
\* has sent as many distinct tiles as the quadtree has nodes
C1_Witness ==
    \E s \in 1..Len(conf) :
        /\ conf[s] = MaxLevel
        /\ Root(s) \in done
        /\ Cardinality({n \in SentTiles : n[1] = s}) = Cardinality(Tiles(s, MaxLevel))

\* C2: a tile with z < max_level is sent only after its four children have
\* completed; so when a tile has been sent every descendant of it has
\* completed and has been sent, and when the root has been sent every tile
\* of its source has been sent.
C2_ParentAfterChildren ==
    /\ \A n \in SentTiles :
           /\ Recurses(n) =>
                  /\ <<n[1], n[2] + 1, 2 * n[3], 2 * n[4]>> \in done
                  /\ <<n[1], n[2] + 1, 2 * n[3] + 1, 2 * n[4]>> \in done
                  /\ <<n[1], n[2] + 1, 2 * n[3], 2 * n[4] + 1>> \in done
                  /\ <<n[1], n[2] + 1, 2 * n[3] + 1, 2 * n[4] + 1>> \in done
           /\ \A m \in Descendants(n) : m \in done /\ m \in SentTiles
    /\ \A s \in 1..Len(conf) :
           Root(s) \in SentTiles => Tiles(s, conf[s]) \subseteq SentTiles

\* a tile with children and a parent has been sent, after its children have
\* completed and before the root of its source is sent
C2_Witness ==
    \E n \in SentTiles :
        /\ Recurses(n)
        /\ n[2] > 0
        /\ Root(n[1]) \notin SentTiles
        /\ Children(n) \subseteq done

AllTiles == UNION {Tiles(s, conf[s]) : s \in 1..Len(conf)}

\* every tile of every source has been sent and its job has completed, the
\* consumer has received every message sent, every sender is dropped and
\* the consumer loop has ended
Finished ==
    /\ \A n \in AllTiles : n \in done /\ CopiesIn(n, sent) = 1
    /\ received = sent
    /\ chan = <<>>
    /\ senders = 0
    /\ mainpc = "done"

ClipLineReturned == call.fn = "clip_line" /\ ret.done

ClipPolygonReturned == call.fn = "clip_polygon" /\ ret.done

InRect(p, rect) ==
    /\ rect.min[1] <= p[1] /\ p[1] <= rect.max[1]
    /\ rect.min[2] <= p[2] /\ p[2] <= rect.max[2]

RingInRect(ls, rect) == \A i \in 1..Len(ls) : InRect(ls[i], rect)

\* C4: every coordinate of every ring (exterior and each interior) of the
\* polygon clip_polygon returns lies in the clip rectangle:
\* rect.min.x <= x <= rect.max.x and rect.min.y <= y <= rect.max.y.
C4_OutputInsideRect ==
    ClipPolygonReturned =>
        /\ RingInRect(ret.val.exterior, call.rect)
        /\ \A i \in 1..Len(ret.val.interiors) :
               RingInRect(ret.val.interiors[i], call.rect)

\* the rectangle's closed ring: five points, first equal to last, its
\* corners the rectangle's four corners
IsRectRing(ls, rect) ==
    /\ Len(ls) = 5
    /\ ls[1] = ls[5]
    /\ {ls[i] : i \in 1..4} =
           {<<rect.min[1], rect.min[2]>>, <<rect.max[1], rect.min[2]>>,
            <<rect.max[1], rect.max[2]>>, <<rect.min[1], rect.max[2]>>}

\* the case of the containment fallback: the two-pass clip of the exterior
\* is empty and the unclipped polygon contains the rectangle
FallbackCase ==
    /\ ClipPolygonReturned
    /\ clip_line(clip_line(call.polygon.exterior, call.rect.min[1],
                           call.rect.max[1], "X"),
                 call.rect.min[2], call.rect.max[2], "Y") = <<>>
    /\ contains(call.polygon, RectPolygon(call.rect))

RingStrictlyInRect(ls, rect) ==
    \A i \in 1..Len(ls) :
        /\ rect.min[1] < ls[i][1] /\ ls[i][1] < rect.max[1]
        /\ rect.min[2] < ls[i][2] /\ ls[i][2] < rect.max[2]

\* no vertex of the ring has its x strictly between the rectangle's sides
RingBesideRect(ls, rect) ==
    \A i \in 1..Len(ls) : ~(rect.min[1] < ls[i][1] /\ ls[i][1] < rect.max[1])

C7_ResultClosed ==
    ClipLineReturned => Closed(ret.val)

\* C7 as amended: a non-empty ring returned by clip_line is closed when it
\* comes from the general edge-walking path, whatever the input, and when
\* the input ring is itself closed; the trivial-accept path returns the
\* input unchanged, so an input that is not closed comes back not closed.
C7_ResultClosedIfInputClosed ==
    ClipLineReturned =>
        /\ (Closed(call.line_strip)
               \/ \E i \in 1..Len(call.line_strip) :
                      ~(call.k1 < coord(call.line_strip[i], call.axis)
                           /\ coord(call.line_strip[i], call.axis) < call.k2))
              => Closed(ret.val)
        /\ (\A i \in 1..Len(call.line_strip) :
                call.k1 < coord(call.line_strip[i], call.axis)
                    /\ coord(call.line_strip[i], call.axis) < call.k2)
              => ret.val = call.line_strip

\* the general path has closed a ring: the input is not closed, has a
\* vertex inside and a vertex outside the interval, and the result is a
\* closed ring of at least three points
C7_Witness ==
    /\ ClipLineReturned
    /\ ~Closed(call.line_strip)
    /\ \E i \in 1..Len(call.line_strip) :
           coord(call.line_strip[i], call.axis) > call.k2
    /\ Len(ret.val) >= 3
    /\ ret.val[1] = ret.val[Len(ret.val)]

\* C8: if no vertex of the ring has its axis coordinate c with
\* k1 < c < k2, clip_line returns the empty ring (and so no intersection
\* point), also when vertices lie exactly on k1 or k2 and when an edge
\* spans the whole interval.
C8_TrivialReject ==
    ClipLineReturned =>
        ((\A i \in 1..Len(call.line_strip) :
              ~(call.k1 < coord(call.line_strip[i], call.axis)
                   /\ coord(call.line_strip[i], call.axis) < call.k2))
            => ret.val = <<>>)

\* a ring with a vertex exactly on k1 and an edge from below k1 to above k2
\* has been rejected
C8_Witness ==
    /\ ClipLineReturned
    /\ call.k1 < call.k2
    /\ \E i \in 1..Len(call.line_strip) :
           coord(call.line_strip[i], call.axis) = call.k1
    /\ \E i \in 1..(Len(call.line_strip) - 1) :
           /\ coord(call.line_strip[i], call.axis) < call.k1
           /\ coord(call.line_strip[i + 1], call.axis) > call.k2
    /\ ret.val = <<>>

(***************************************************************************)
(* The claims about shapefile.rs, under SpecShp.                           *)
(***************************************************************************)
ParseShpReturned == call.fn = "parse_shp" /\ ret.done

\* every record slot of the buffer holds a whole, valid polygon record
WholeBuffer ==
    /\ call.header = "right"
    /\ call.cut = 0
    /\ \A k \in 1..Len(call.records) : call.records[k] \in {"empty", "ring"}

\* C5: decoding is all-or-nothing: parse_shp succeeds only with a record
\* for every record slot of the buffer, the whole buffer valid and
\* consumed; a buffer with a valid header and first record whose later
\* record is truncated or has a shape type other than 5 makes it fail.
C5_AllOrNothing ==
    ParseShpReturned =>
        (ret.val.ok =>
            /\ WholeBuffer
            /\ Len(ret.val.val.records) = Len(call.records)
            /\ ret.val.rest = <<>>)

FromRecordReturned == call.fn = "from" /\ ret.done /\ ret.val.ok

\* the rings of the record of the call, in the order of its parts
CallRings == multi_linestring(call.record)

\* the bag of the elements of a sequence
BagOfSeq(v) ==
    [e \in {v[k] : k \in 1..Len(v)} |-> Cardinality({k \in 1..Len(v) : v[k] = e})]

\* the exterior is a ring of the largest bounding-box area and the holes are
\* the other n - 1 rings
ExteriorLargest ==
    /\ \A k \in 1..Len(CallRings) :
           bounding_area(ret.val.val.exterior) >= bounding_area(CallRings[k])
    /\ Len(ret.val.val.interiors) = Len(CallRings) - 1
    /\ BagOfSeq(Append(ret.val.val.interiors, ret.val.val.exterior))
           = BagOfSeq(CallRings)

\* with the parts in any other order in the buffer, the exterior is the same
SameExteriorInAnyOrder ==
    \A p \in Permutations(1..Len(CallRings)) :
        \A q \in from_record(RecordOf([k \in 1..Len(CallRings) |-> CallRings[p[k]]])) :
            q.val.exterior = ret.val.val.exterior

\* one ring has a larger bounding-box area than every other ring
OneLargest ==
    \E k \in 1..Len(CallRings) :
        \A j \in 1..Len(CallRings) :
            j # k => bounding_area(CallRings[k]) > bounding_area(CallRings[j])

\* C9 as claimed: for a record with n >= 2 parts the exterior is the ring
\* with the largest bounding-box area, the holes are exactly the other
\* n - 1 rings, and the exterior is the same whatever the order of the
\* parts in the buffer.
C9_ExteriorAnyOrder ==
    (FromRecordReturned /\ Len(call.record.parts) >= 2) =>
        /\ ExteriorLargest
        /\ SameExteriorInAnyOrder

\* C9 as amended: for a record with n >= 2 parts the exterior is a ring of
\* the largest bounding-box area and the holes are exactly the other n - 1
\* rings; the exterior is the same whatever the order of the parts when one
\* ring has a larger area than every other ring (so for two parts of
\* differing areas); among rings that tie for the largest area the order
\* of the parts decides.
C9_ExteriorAnyOrderUnlessTie ==
    (FromRecordReturned /\ Len(call.record.parts) >= 2) =>
        /\ ExteriorLargest
        /\ OneLargest => SameExteriorInAnyOrder

\* a record of three parts, the ring of the largest area its first part and
\* two different holes after it, has been assembled
C9_Witness ==
    /\ FromRecordReturned
    /\ Len(call.record.parts) = 3
    /\ OneLargest
    /\ ret.val.val.exterior = CallRings[1]
    /\ CallRings[2] # CallRings[3]
    /\ Len(ret.val.val.interiors) = 2

(***************************************************************************)
(* The claim about get_tile, under SpecTile.                               *)
(***************************************************************************)
GetTileReturned == call.fn = "get_tile" /\ ret.done

\* the width and the height of a cell of the 2^z by 2^z grid, z = -zoom
CellWidth == (360 * Grid) \div 2 ^ (-call.zoom)

CellHeight == (180 * Grid) \div 2 ^ (-call.zoom)

\* cell (x, y) of the grid over [-180, 180] x [-90, 90]
CellMin == <<-180 * Grid + call.x * CellWidth, -90 * Grid + call.y * CellHeight>>

CellMax == <<CellMin[1] + CellWidth, CellMin[2] + CellHeight>>

\* b lies o / 2 times span beyond a, up to the rounding of the operations
\* that compute the moved side, a relative error of 2^(-Precision) each;
\* exactly when o is a half or one.  The distances are compared times 2n,
\* n = 2^z, which makes them integers: span is 360 / n or 180 / n.
MovedBy(a, b, span) ==
    LET n == 2 ^ (-call.zoom)
        moved == 2 * n * (b - a)
        claimed == call.overlap * (span \div (Grid \div n))
    IN  /\ Abs(moved - claimed)
               <= 2 * n * ((Max2(Abs(a), Abs(b)) + span) \div 2 ^ Precision)
        /\ call.overlap \in {Grid \div 2, Grid} => moved = claimed

\* C10: get_tile(x, y, -z, 0) is exactly cell (x, y) of the 2^z by 2^z grid:
\* min = (-180 + x * 360 / 2^z, -90 + y * 180 / 2^z), max = min +
\* (360 / 2^z, 180 / 2^z); get_tile(0, 0, 0, 0) is [-180, -90]..[180, 90] and
\* get_tile(0, 0, -1, 0) is [-180, -90]..[0, 0]; with an overlap o > 0 each
\* side lies outside the cell, o / 2 times the cell's width (x sides) or
\* height (y sides) away from the cell's side.
C10_TileRect ==
    GetTileReturned =>
        /\ call.overlap = 0 => ret.val = [min |-> CellMin, max |-> CellMax]
        /\ (call.overlap = 0 /\ call.x = 0 /\ call.y = 0 /\ call.zoom = 0) =>
               ret.val = [min |-> <<-180 * Grid, -90 * Grid>>,
                          max |-> <<180 * Grid, 90 * Grid>>]
        /\ (call.overlap = 0 /\ call.x = 0 /\ call.y = 0 /\ call.zoom = -1) =>
               ret.val = [min |-> <<-180 * Grid, -90 * Grid>>, max |-> <<0, 0>>]
        /\ call.overlap > 0 =>
               /\ ret.val.min[1] < CellMin[1] /\ ret.val.min[2] < CellMin[2]
               /\ ret.val.max[1] > CellMax[1] /\ ret.val.max[2] > CellMax[2]
               /\ MovedBy(ret.val.min[1], CellMin[1], CellWidth)
               /\ MovedBy(ret.val.min[2], CellMin[2], CellHeight)
               /\ MovedBy(CellMax[1], ret.val.max[1], CellWidth)
               /\ MovedBy(CellMax[2], ret.val.max[2], CellHeight)

\* the rect of a tile of the deepest level, not in the first column nor the
\* first row, has been computed with an overlap
C10_Witness ==
    /\ GetTileReturned
    /\ call.zoom = -MaxZoom
    /\ call.x > 0 /\ call.y > 0
    /\ call.overlap > 0
    /\ ret.val.min[1] < CellMin[1]

(***************************************************************************)
(* main.rs: tiles_for_z and the progress total.  A natural number n is the *)
(* pair <<hi, lo>> with n = hi * 2^16 + lo and lo < 2^16; a u32 is such a  *)
(* pair with hi < 2^16.  An operation of u32 that overflows panics in a    *)
(* build with overflow checks (the dev profile) and wraps in a build       *)
(* without (the release profile).                                          *)
(***************************************************************************)
Limb == 2 ^ 16

Wide(n) == <<n \div Limb, n % Limb>>

WAdd(a, b) == <<a[1] + b[1] + (a[2] + b[2]) \div Limb, (a[2] + b[2]) % Limb>>

WMul4(a) == <<4 * a[1] + (4 * a[2]) \div Limb, (4 * a[2]) % Limb>>

\* the value fits a u32
Fits(a) == a[1] < Limb

U32(a) == [ok |-> TRUE, val |-> a]

\* the u32 an operation with the mathematical result a leaves
checked(a, overflow_checks) ==
    IF Fits(a) THEN U32(a)
    ELSE IF overflow_checks THEN Panic
    ELSE U32(<<a[1] % Limb, a[2]>>)

\* 4u32.pow(exp): a product of exp factors 4; an overflow check trips
\* exactly when the product does not fit, and the wrapped product is the
\* product modulo 2^32 in whichever order the factors are multiplied
RECURSIVE pow4(_, _)
pow4(exp, overflow_checks) ==
    IF exp = 0 THEN U32(Wide(1))
    ELSE AndThen(pow4(exp - 1, overflow_checks), LAMBDA p :
             checked(WMul4(p.val), overflow_checks))

\* (0..=k).map(|z| 4u32.pow(z)).sum(): the terms are computed and added in
\* order, from 0
RECURSIVE sum_of_powers(_, _)
sum_of_powers(k, overflow_checks) ==
    IF k < 0 THEN U32(Wide(0))
    ELSE AndThen(sum_of_powers(k - 1, overflow_checks), LAMBDA acc :
         AndThen(pow4(k, overflow_checks), LAMBDA p :
             checked(WAdd(acc.val, p.val), overflow_checks)))

tiles_for_z(z, overflow_checks) == sum_of_powers(z, overflow_checks)

\* main: number_of_tiles = 0, and number_of_tiles += tiles_for_z(max_level)
\* for every source of conf.tiles, in order
RECURSIVE number_of_tiles(_, _)
number_of_tiles(levels, overflow_checks) ==
    IF levels = <<>> THEN U32(Wide(0))
    ELSE AndThen(number_of_tiles(SubSeq(levels, 1, Len(levels) - 1),
                                 overflow_checks), LAMBDA acc :
         AndThen(tiles_for_z(levels[Len(levels)], overflow_checks), LAMBDA t :
             checked(WAdd(acc.val, t.val), overflow_checks)))

\* the max_level of the sources whose tiles are added up: 0, 2 and the
\* levels 15 and 16
TotalLevels == {0, 2, 15, 16}

\* call is a call of tiles_for_z
TilesForZCall ==
    \E z \in 0..MaxExp, c \in BOOLEAN :
        call = [fn |-> "tiles_for_z", z |-> z, overflow_checks |-> c]

\* call is the loop of main that adds up number_of_tiles
NumberOfTilesCall ==
    \E n \in 1..MaxTotal, c \in BOOLEAN :
        \E levels \in [1..n -> TotalLevels] :
            call = [fn |-> "number_of_tiles", levels |-> levels,
                    overflow_checks |-> c]

ApplyTilesForZ ==
    /\ call.fn = "tiles_for_z"
    /\ ~ret.done
    /\ ret' = Returned(tiles_for_z(call.z, call.overflow_checks))
    /\ UNCHANGED <<call, sysvars>>

ApplyNumberOfTiles ==
    /\ call.fn = "number_of_tiles"
    /\ ~ret.done
    /\ ret' = Returned(number_of_tiles(call.levels, call.overflow_checks))
    /\ UNCHANGED <<call, sysvars>>

InitCount ==
    /\ NoSystem
    /\ TilesForZCall \/ NumberOfTilesCall
    /\ ret = NoRet

NextCount == ApplyTilesForZ \/ ApplyNumberOfTiles

SpecCount == InitCount /\ [][NextCount]_vars

(***************************************************************************)
(* The claim about tiles_for_z, under SpecCount.                           *)
(***************************************************************************)
TilesForZReturned == call.fn = "tiles_for_z" /\ ret.done

NumberOfTilesReturned == call.fn = "number_of_tiles" /\ ret.done

\* the number of tiles of the levels 0..z, 1 + 4 + ... + 4^z, as a natural
\* number: 1 for z = 0, and the root and four trees of z levels beyond
RECURSIVE TilesOfLevels(_)
TilesOfLevels(z) ==
    IF z = 0 THEN Wide(1) ELSE WAdd(WMul4(TilesOfLevels(z - 1)), Wide(1))

\* the number of tiles the sources of the given max_levels emit
RECURSIVE TilesOfSources(_)
TilesOfSources(levels) ==
    IF levels = <<>> THEN Wide(0)
    ELSE WAdd(TilesOfLevels(Head(levels)), TilesOfSources(Tail(levels)))

\* C11: tiles_for_z(z) returns, for every max_level z, the sum of 4^k for
\* k = 0..z (1, 5, 21 for z = 0, 1, 2) with no overflow or wrap-around of the
\* u32, and the total main adds up from it is the number of tiles the
\* sources emit.
C11_TilesForZIsSum ==
    /\ TilesForZReturned =>
           /\ ret.val = U32(TilesOfLevels(call.z))
           /\ call.z = 0 => ret.val = U32(Wide(1))
           /\ call.z = 1 => ret.val = U32(Wide(5))
           /\ call.z = 2 => ret.val = U32(Wide(21))
    /\ NumberOfTilesReturned => ret.val = U32(TilesOfSources(call.levels))

(***************************************************************************)
(* main.rs: the geometry of a tile node.  write_tile_recursive clips the   *)
(* geometry it is handed to its tile (create_tile), hands the result to    *)
(* its four children and, after the scope, sends it, simplified when the   *)
(* tile is large enough.  A geo::MultiPolygon is a sequence of polygons.   *)
(***************************************************************************)
\* poly.exterior.0.len() > 3
ExteriorKept(polygon) == Len(polygon.exterior) > 3

create_tile(polygons, tile_rect) ==
    SelectSeq([i \in 1..Len(polygons) |-> clip_polygon(polygons[i], tile_rect)],
              ExteriorKept)

\* geo's area of the triangle p1, p2, p3
triangle_area(p1, p2, p3) ==
    FDiv(Abs(FSub(FMul(FSub(p1[1], p3[1]), FSub(p2[2], p3[2])),
                  FMul(FSub(p2[1], p3[1]), FSub(p1[2], p3[2])))),
         FromInt(2))

RemoveAt(ls, i) == SubSeq(ls, 1, i - 1) \o SubSeq(ls, i + 1, Len(ls))

\* LineString::simplifyvw, Visvalingam-Whyatt: while the smallest triangle
\* of three neighbouring points is no larger than epsilon, its middle point
\* is removed; the first and the last point stay.  Which of several
\* smallest triangles the heap yields first is not specified: the results
\* of every order
RECURSIVE visvalingam(_, _)
visvalingam(ls, epsilon) ==
    IF Len(ls) < 3 THEN {ls}
    ELSE LET inner == 2..(Len(ls) - 1)
             area == [i \in inner |-> triangle_area(ls[i - 1], ls[i], ls[i + 1])]
             smallest == {i \in inner : \A j \in inner : area[i] <= area[j]}
         IN  IF \A i \in smallest : area[i] > epsilon THEN {ls}
             ELSE UNION {visvalingam(RemoveAt(ls, i), epsilon) : i \in smallest}

\* one element of each set of the sequence S of sets
SeqChoices(S) ==
    {f \in [1..Len(S) -> UNION {S[i] : i \in 1..Len(S)}] :
        \A i \in 1..Len(S) : f[i] \in S[i]}

\* Polygon::simplifyvw: the exterior and every interior, each simplified
simplifyvw(polygon, epsilon) ==
    {[exterior |-> e, interiors |-> h] :
        e \in visvalingam(polygon.exterior, epsilon),
        h \in SeqChoices([i \in 1..Len(polygon.interiors) |->
                             visvalingam(polygon.interiors[i], epsilon)])}

\* tile_rect.area() / 1024f64 / 512f64, the area being the width times the
\* height.  A division by a power of two is exact, so the width is divided
\* by 1024 before it is multiplied: the area of the root tile, 66000, is
\* beyond what the model's format holds
min_area(tile_rect) ==
    FDiv(FMul(FDiv(FSub(tile_rect.max[1], tile_rect.min[1]), FromInt(1024)),
              FSub(tile_rect.max[2], tile_rect.min[2])),
         FromInt(512))

\* the literal 0.00001, as the format holds it
SmallArea == Rnd(Grid, 100000)

\* the geometries the node may send: simplified and filtered, or, for a
\* very small tile, the clipped geometry as it is
simplified_polygon(poly, tile_rect) ==
    IF min_area(tile_rect) > SmallArea
    THEN {SelectSeq(f, ExteriorKept) :
             f \in SeqChoices([i \in 1..Len(poly) |->
                                  simplifyvw(poly[i], min_area(tile_rect))])}
    ELSE {poly}

\* get_tile(x as i32, y as i32, -(z as i32), 0.01)
TileRect(tile) ==
    get_tile(tile[3], tile[4], -tile[2], FDiv(FromInt(1), FromInt(100)))

\* the square from p to q with the given holes
Square(p, q, holes) ==
    [exterior |-> << p, <<q[1], p[2]>>, q, <<p[1], q[2]>>, p >>,
     interiors |-> holes]

\* the closed triangle with its right angle at p and legs of length d
Corner(p, d) == << p, <<p[1] + d, p[2]>>, <<p[1], p[2] + d>>, p >>

Pt(x4, y4) == <<x4 * (Grid \div 4), y4 * (Grid \div 4)>>

\* a land mass from (-100, -50) to (100, 50)
Land(holes) == Square(Pt(-400, -200), Pt(400, 200), holes)

\* a lake in the north-east, from (10, 10), with legs of 10
Lake == Corner(Pt(40, 40), 10 * Grid)

\* a pond in the south-west, from (-10, -10), with legs of 1/4
Pond == Corner(Pt(-40, -40), Grid \div 4)

\* an islet in the north-east, from (30, 20), with legs of 1/4
Islet == [exterior |-> Corner(Pt(120, 80), Grid \div 4), interiors |-> <<>>]

\* the geometries of a source, handed to the root tile
SourceGeometries ==
    LET lands == {Land(h) : h \in {<<>>, <<Lake>>, <<Pond>>, <<Lake, Pond>>}}
    IN  {<<l>> : l \in lands} \cup {<<Islet>>} \cup {<<l, Islet>> : l \in lands}

\* the geometries that reach the deep tile (MaxDeep, 0, 0) as the source
\* holds them, every vertex strictly inside the rect of that tile and of
\* the tiles above it: a field from (-179.75, -89.75) to (-177.5, -88.75),
\* with or without a pit from (-178.5, -89.5) with legs of 1/4
DeepGeometries ==
    LET pit == Corner(Pt(-714, -358), Grid \div 4)
    IN  {<<Square(Pt(-719, -359), Pt(-710, -355), h)>> : h \in {<<>>, <<pit>>}}

\* call is a call of write_tile_recursive for the root tile of a source
RootCall ==
    \E g \in SourceGeometries :
        call = [fn |-> "write_tile_recursive", poly |-> g, tile |-> Root(1),
                max_level |-> MaxNode]

\* call is a call of write_tile_recursive for the deep tile
DeepCall ==
    \E g \in DeepGeometries :
        call = [fn |-> "write_tile_recursive", poly |-> g,
                tile |-> <<1, MaxDeep, 0, 0>>, max_level |-> MaxDeep + 2]

\* the node clips, and sends after its scope
ApplyWriteTile ==
    /\ call.fn = "write_tile_recursive"
    /\ ~ret.done
    /\ \E created \in {create_tile(call.poly, TileRect(call.tile))} :
       \E s \in simplified_polygon(created, TileRect(call.tile)) :
           ret' = Returned([poly |-> created, sent |-> s])
    /\ UNCHANGED <<call, sysvars>>

\* one of the four computations the scope of the node spawns: a child tile,
\* handed &poly, the clipped geometry of the node
SpawnChild ==
    /\ call.fn = "write_tile_recursive"
    /\ ret.done
    /\ call.tile[2] < call.max_level
    /\ \E k \in 1..4 :
           call' = [call EXCEPT !.poly = ret.val.poly, !.tile = Child(call.tile, k)]
    /\ ret' = NoRet
    /\ UNCHANGED sysvars

InitNode ==
    /\ NoSystem
    /\ RootCall \/ DeepCall
    /\ ret = NoRet

NextNode == ApplyWriteTile \/ SpawnChild

SpecNode == InitNode /\ [][NextNode]_vars

(***************************************************************************)
(* The claim about degenerate rings, under SpecNode.                       *)
(***************************************************************************)
NodeReturned == call.fn = "write_tile_recursive" /\ ret.done

\* every ring of every polygon, exterior and interior, has 4 points or more
NoDegenerateRing(polygons) ==
    \A i \in 1..Len(polygons) :
        /\ Len(polygons[i].exterior) >= 4
        /\ \A j \in 1..Len(polygons[i].interiors) :
               Len(polygons[i].interiors[j]) >= 4

\* C12: at every tile node, the geometry the node hands to its children
\* (after create_tile) and the geometry it sends to the channel, simplified
\* or not, hold no ring, exterior or interior, of fewer than 4 points.
C12_NoDegenerateRing ==
    NodeReturned =>
        /\ call.tile[2] < call.max_level => NoDegenerateRing(ret.val.poly)
        /\ NoDegenerateRing(ret.val.sent)

==========================================================================
